---- MODULE Spec2Model ----
(***************************************************************************)
(* Model of server/app/__main__.py: the versioned document store behind    *)
(* the four HTTP endpoints (get_document, save, get_versions,              *)
(* create_version) and the two websocket handlers (websocket,              *)
(* websocket_ai_sugg) that assemble the reviewer's fragment stream.        *)
(***************************************************************************)
EXTENDS Integers, Sequences, FiniteSets, TLC

VARIABLES
    rows,       \* the documents table: a sequence of rows [id, version, content]
    reply,      \* the last HTTP response handed back to a caller
    origin,     \* history: (id, version) -> the request that last wrote that row
    pre,        \* history: the table as the last request found it
    channel,    \* per connection: the endpoint it is connected to
    pc,         \* per connection: where its handler is suspended
    client,     \* per connection: the client's end, "connected" or "disconnected"
    response,   \* per connection: the handler's local `response`
    cycle,      \* history: number of frames the handler has received
    inbound,    \* history: the frame received last
    invoked,    \* history: the reviewer call made for the frame received last
    yielded,    \* history: the fragments the reviewer has yielded for that call
    delivered,  \* history: the messages sent since the last frame was received
    outcome,    \* history: how the handling of the last frame went
    reported,   \* history: the cycle of the last "Error occurred" print
    malformed,  \* history: a payload of this connection failed to parse
    txn,        \* per worker thread: the transaction its request has open
    commits     \* history: the transactions ended by db.commit(), in commit order

storeVars == <<rows, reply, origin, pre>>
sessionVars == <<channel, pc, client, response, cycle, inbound, invoked, yielded,
                 delivered, outcome, reported, malformed>>
txnVars == <<txn, commits>>
vars == <<rows, reply, origin, pre, channel, pc, client, response, cycle, inbound,
          invoked, yielded, delivered, outcome, reported, malformed, txn, commits>>

---------------------------------------------------------------------------
(* Bounds and input domains *)

\* the table is capped at MaxRows rows (the seed rows plus created ones)
MaxRows == 6

\* document ids and version numbers the callers use (those of the seed data)
DocumentIds == {1, 2}
Versions == {1, 2, 3}

\* seed contents (app.internal.data, opaque texts)
DOCUMENT_1 == "DOCUMENT_1"
DOCUMENT_2 == "DOCUMENT_2"

\* contents a caller may send in a DocumentBase body
Contents == {DOCUMENT_1, DOCUMENT_2}

\* Python's None
None == [py |-> "None"]

---------------------------------------------------------------------------
(* The store *)

Row(id, version, content) == [id |-> id, version |-> version, content |-> content]

\* lifespan: the four seed inserts, committed together
lifespan ==
    << Row(1, 1, DOCUMENT_1),
       Row(2, 1, DOCUMENT_2),
       Row(2, 2, DOCUMENT_2),
       Row(2, 3, DOCUMENT_2) >>

\* WHERE id == document_id AND version == document_version
Matching(table, document_id, document_version) ==
    { i \in DOMAIN table : table[i].id = document_id
                           /\ table[i].version = document_version }

MinOf(S) == CHOOSE i \in S : \A j \in S : i <= j

\* a lookup that filters on the document id alone
SelectScalar_IdOnly(table, document_id, document_version) ==
    LET m == { i \in DOMAIN table : table[i].id = document_id }
    IN  IF m = {} THEN None ELSE table[MinOf(m)]

\* db.scalar(select(Document).where(...).where(...)): first row or None
SelectScalar(table, document_id, document_version) ==
    LET m == Matching(table, document_id, document_version)
    IN  IF m = {} THEN None ELSE table[MinOf(m)]

\* an update that is never committed
UpdateContent_NoCommit(table, document_id, document_version, content) == table

\* an update that inserts the row when none matches
UpdateContent_Upsert(table, document_id, document_version, content) ==
    IF \E i \in DOMAIN table : table[i].id = document_id
                                /\ table[i].version = document_version
    THEN [ i \in DOMAIN table |->
             IF table[i].id = document_id /\ table[i].version = document_version
             THEN [table[i] EXCEPT !.content = content]
             ELSE table[i] ]
    ELSE Append(table, [id |-> document_id, version |-> document_version,
                        content |-> content])

\* an update whose WHERE leaves the version out
UpdateContent_IdOnly(table, document_id, document_version, content) ==
    [ i \in DOMAIN table |->
        IF table[i].id = document_id
        THEN [table[i] EXCEPT !.content = content]
        ELSE table[i] ]

\* update(Document).where(...).where(...).values(content=...) ; commit
UpdateContent(table, document_id, document_version, content) ==
    [ i \in DOMAIN table |->
        IF table[i].id = document_id /\ table[i].version = document_version
        THEN [table[i] EXCEPT !.content = content]
        ELSE table[i] ]

\* the table's primary key is (id, version): an INSERT of an existing pair
\* is rejected with IntegrityError
PrimaryKeyViolation(table, document_id, document_version) ==
    Matching(table, document_id, document_version) # {}

\* an add whose commit is missing: nothing is stored, nothing is raised
AddAndCommit_NoCommit(table, document_id, document_version, content) ==
    [table |-> table, raised |-> FALSE]

\* db.merge in place of db.add: an existing row is overwritten
AddAndCommit_Merge(table, document_id, document_version, content) ==
    IF Matching(table, document_id, document_version) # {}
    THEN [table |-> UpdateContent(table, document_id, document_version, content),
          raised |-> FALSE]
    ELSE [table |-> Append(table, Row(document_id, document_version, content)),
          raised |-> FALSE]

\* an insert into a table without the key constraint
AddAndCommit_NoKey(table, document_id, document_version, content) ==
    [table |-> Append(table, Row(document_id, document_version, content)),
     raised |-> FALSE]

\* db.add(db_document); db.commit(): the INSERT is flushed and committed, or
\* the key constraint rejects it, the transaction is rolled back and the
\* exception leaves the handler
AddAndCommit(table, document_id, document_version, content) ==
    IF PrimaryKeyViolation(table, document_id, document_version)
    THEN [table |-> table, raised |-> TRUE]
    ELSE [table |-> Append(table, Row(document_id, document_version, content)),
          raised |-> FALSE]

\* a loop that assigns [version] where the code appends
RECURSIVE VersionsLoop_Assign(_, _, _)
VersionsLoop_Assign(results, i, all_versions) ==
    IF i > Len(results) THEN all_versions
    ELSE LET document_id == results[i][1]
             version == results[i][2]
             d == IF document_id \notin DOMAIN all_versions
                  THEN all_versions @@ (document_id :> << >>)
                  ELSE all_versions
         IN  VersionsLoop_Assign(results, i + 1,
                                 [d EXCEPT ![document_id] = <<version>>])

\* the loop of get_versions over the (id, version) result rows
RECURSIVE VersionsLoop(_, _, _)
VersionsLoop(results, i, all_versions) ==
    IF i > Len(results) THEN all_versions
    ELSE LET document_id == results[i][1]
             version == results[i][2]
             d == IF document_id \notin DOMAIN all_versions
                  THEN all_versions @@ (document_id :> << >>)
                  ELSE all_versions
         IN  VersionsLoop(results, i + 1,
                          [d EXCEPT ![document_id] = Append(@, version)])

\* select(Document.id, Document.version)
SelectIdVersion(table) == [ i \in DOMAIN table |-> <<table[i].id, table[i].version>> ]

AllVersions(table) == VersionsLoop(SelectIdVersion(table), 1, << >>)

Pairs == DocumentIds \X Versions

NoReply == [op |-> "none"]

Written(by, content) == [by |-> by, content |-> content]

StoreInit ==
    /\ rows = lifespan
    /\ pre = lifespan
    /\ reply = NoReply
    /\ origin = [ p \in Pairs |->
                    IF Matching(lifespan, p[1], p[2]) # {}
                    THEN Written("lifespan", SelectScalar(lifespan, p[1], p[2]).content)
                    ELSE None ]

\* GET /document
get_document(document_id, document_version) ==
    /\ reply' = [ op |-> "get_document", document_id |-> document_id,
                  document_version |-> document_version, content |-> None,
                  status |-> "ok",
                  body |-> SelectScalar(rows, document_id, document_version) ]
    /\ pre' = rows
    /\ UNCHANGED <<rows, origin>>
    /\ UNCHANGED <<sessionVars, txnVars>>

\* POST /save
save(document_id, document_version, content) ==
    /\ Len(UpdateContent(rows, document_id, document_version, content)) <= MaxRows
    /\ rows' = UpdateContent(rows, document_id, document_version, content)
    /\ pre' = rows
    /\ reply' = [ op |-> "save", document_id |-> document_id,
                  document_version |-> document_version, content |-> content,
                  status |-> "ok",
                  body |-> [document_id |-> document_id, content |-> content] ]
    /\ origin' = IF Matching(rows, document_id, document_version) # {}
                 THEN [origin EXCEPT ![<<document_id, document_version>>] =
                                          Written("save", content)]
                 ELSE origin
    /\ UNCHANGED <<sessionVars, txnVars>>

\* GET /versions
get_versions ==
    /\ reply' = [ op |-> "get_versions", status |-> "ok", body |-> AllVersions(rows) ]
    /\ pre' = rows
    /\ UNCHANGED <<rows, origin>>
    /\ UNCHANGED <<sessionVars, txnVars>>

\* POST /create_version
create_version(document_id, document_version, content) ==
    LET r == AddAndCommit(rows, document_id, document_version, content)
    IN  /\ Len(r.table) <= MaxRows
        /\ UNCHANGED <<sessionVars, txnVars>>
        /\ rows' = r.table
        /\ pre' = rows
        /\ IF r.raised
           THEN /\ reply' = [ op |-> "create_version", document_id |-> document_id,
                              document_version |-> document_version,
                              content |-> content,
                              status |-> "IntegrityError", body |-> None ]
                /\ UNCHANGED origin
           ELSE /\ reply' = [ op |-> "create_version", document_id |-> document_id,
                              document_version |-> document_version,
                              content |-> content, status |-> "ok",
                              body |-> [document_id |-> document_id, content |-> content] ]
                /\ origin' = [origin EXCEPT ![<<document_id, document_version>>] =
                                                Written("create_version", content)]


---------------------------------------------------------------------------
(* The store's transactions, statement by statement *)

\* requests each worker thread serves
MaxTxns == 1

\* save and create_version are plain functions: the server runs each request
\* on a thread of its pool, with a database session of its own
Workers == {"w1", "w2"}

\* the pairs the workers write: (1, 1) is seeded, (1, 2) is absent at the start
TxnPairs == { <<1, 1>>, <<1, 2>> }

\* the content in a worker's request body
WorkerContent(w) == IF w = "w1" THEN "EDIT_1" ELSE "EDIT_2"

Idle == [at |-> "idle"]

\* what the engine does with an UPDATE at the commit of its transaction: the
\* rows the statement matched take the new content, all of it, at once
CommitUpdate(table, matched, content) ==
    [ i \in DOMAIN table |->
        IF i \in matched THEN [table[i] EXCEPT !.content = content] ELSE table[i] ]

\* the requests a worker has completed
Served(w) == Cardinality({ i \in DOMAIN commits : commits[i].worker = w })

TxnInit ==
    /\ txn = [w \in Workers |-> Idle]
    /\ commits = << >>

\* an UPDATE that filters on the id alone
save_execute_IdOnly(w, document_id, document_version, content) ==
    /\ txn[w] = Idle
    /\ Served(w) < MaxTxns
    /\ txn' = [txn EXCEPT ![w] =
                 [ at |-> "executed", op |-> "save", id |-> document_id,
                   version |-> document_version, content |-> content,
                   matched |-> { i \in DOMAIN rows : rows[i].id = document_id },
                   began |-> Len(commits) ]]
    /\ UNCHANGED <<commits, storeVars, sessionVars>>

\* save, db.execute(update(...)): the statement runs in the request's own
\* transaction and finds the rows with this id and version; nothing is
\* visible to other sessions yet
save_execute(w, document_id, document_version, content) ==
    /\ txn[w] = Idle
    /\ Served(w) < MaxTxns
    /\ txn' = [txn EXCEPT ![w] =
                 [ at |-> "executed", op |-> "save", id |-> document_id,
                   version |-> document_version, content |-> content,
                   matched |-> Matching(rows, document_id, document_version),
                   began |-> Len(commits) ]]
    /\ UNCHANGED <<commits, storeVars, sessionVars>>

\* save, db.commit(): the update becomes the table's state
save_commit(w) ==
    /\ txn[w] # Idle
    /\ txn[w].op = "save"
    /\ rows' = CommitUpdate(rows, txn[w].matched, txn[w].content)
    /\ commits' = Append(commits,
                         [ worker |-> w, op |-> "save", id |-> txn[w].id,
                           version |-> txn[w].version, content |-> txn[w].content,
                           wrote |-> txn[w].matched # {}, raised |-> FALSE,
                           began |-> txn[w].began ])
    /\ txn' = [txn EXCEPT ![w] = Idle]
    /\ UNCHANGED <<reply, origin, pre, sessionVars>>

\* create_version, db.add(db_document): the row is pending in the session
create_add(w, document_id, document_version, content) ==
    /\ txn[w] = Idle
    /\ Served(w) < MaxTxns
    /\ txn' = [txn EXCEPT ![w] =
                 [ at |-> "added", op |-> "create_version", id |-> document_id,
                   version |-> document_version, content |-> content,
                   matched |-> {}, began |-> Len(commits) ]]
    /\ UNCHANGED <<commits, storeVars, sessionVars>>

\* create_version, db.commit(): the INSERT is flushed and committed, or the
\* key constraint rejects it and the transaction is rolled back
create_commit(w) ==
    /\ txn[w] # Idle
    /\ txn[w].op = "create_version"
    /\ LET r == AddAndCommit(rows, txn[w].id, txn[w].version, txn[w].content)
       IN  /\ rows' = r.table
           /\ commits' = Append(commits,
                                [ worker |-> w, op |-> "create_version",
                                  id |-> txn[w].id, version |-> txn[w].version,
                                  content |-> txn[w].content,
                                  wrote |-> ~r.raised, raised |-> r.raised,
                                  began |-> txn[w].began ])
    /\ txn' = [txn EXCEPT ![w] = Idle]
    /\ UNCHANGED <<reply, origin, pre, sessionVars>>

TxnNext ==
    \E w \in Workers :
        \/ \E p \in TxnPairs : save_execute(w, p[1], p[2], WorkerContent(w))
        \/ save_commit(w)
        \/ \E p \in TxnPairs : create_add(w, p[1], p[2], WorkerContent(w))
        \/ create_commit(w)

---------------------------------------------------------------------------
(* Texts, frames and the reviewer's fragments *)

\* reviewer fragments per received frame, and frames received per connection
MaxFrags == 3
MaxMsgs == 2

\* the connections; one handler coroutine runs per connection
Sessions == {"c1", "c2"}

\* a Python str, as the sequence of its characters
Str(chars) == [str |-> chars]

IsStr(v) == "str" \in DOMAIN v

\* what the reviewer's stream may yield: None, the empty text, one-character
\* texts (the second one needs escaping in JSON)
Fragments == { None, Str(<< >>), Str(<<"a">>), Str(<<"\"">>) }

\* str.strip(): leading and trailing whitespace removed
RECURSIVE LStrip(_)
LStrip(q) == IF q # << >> /\ Head(q) = " " THEN LStrip(Tail(q)) ELSE q

RECURSIVE RStrip(_)
RStrip(q) == IF q # << >> /\ q[Len(q)] = " " THEN RStrip(SubSeq(q, 1, Len(q) - 1)) ELSE q

Strip(text) == Str(RStrip(LStrip(text.str)))

\* `if suggestion:` -- None and the empty text are falsy
Truthy(suggestion) == IsStr(suggestion) /\ suggestion.str # << >>

\* a loop body that puts the new fragment in front
Accumulate_Prepend(resp, suggestion) ==
    IF IsStr(suggestion) /\ suggestion.str # << >>
    THEN Str(suggestion.str \o resp.str) ELSE resp

\* if suggestion: response += suggestion
Accumulate(resp, suggestion) ==
    IF Truthy(suggestion) THEN Str(resp.str \o suggestion.str) ELSE resp

\* JSON escaping of one character of a string
EscapeChar(c) ==
    IF c = "\"" THEN <<"\\", "\"">>
    ELSE IF c = "\\" THEN <<"\\", "\\">>
    ELSE <<c>>

RECURSIVE EscapeChars(_)
EscapeChars(q) == IF q = << >> THEN << >> ELSE EscapeChar(Head(q)) \o EscapeChars(Tail(q))

\* a send that puts the text on the wire as it is
JsonDumps_Raw(text) == text

\* send_json(response): the frame carries json.dumps(response), the text
\* escaped and wrapped in double quotes
JsonDumps(text) == Str(<<"\"">> \o EscapeChars(text.str) \o <<"\"">>)

\* frames a client may send: a text frame or a binary frame
TextFrame(text) == [frame |-> "text", text |-> text]
BytesFrame == [frame |-> "bytes"]

\* documents sent on /ws
Documents == { Str(<<"a">>), Str(<<" ", "a", " ">>) }

\* a text that is the JSON serialisation of `value`
JsonText(value) == [json |-> value]

JsonNumber == [number |-> 1]

Payload(document, paragraph, suggestion) ==
    JsonText([document |-> document, paragraph |-> paragraph, suggestion |-> suggestion])

\* payloads with the three members, all texts
WellFormed ==
    { Payload(Str(<<" ", "a">>), paragraph, Str(<<"s">>)) :
        paragraph \in { Str(<<"p">>), Str(<<"q">>) } }

\* payloads with a member missing, and JSON that is no object
Incomplete ==
    { JsonText([paragraph |-> Str(<<"p">>), suggestion |-> Str(<<"s">>)]),
      JsonText([document |-> Str(<<" ", "a">>), suggestion |-> Str(<<"s">>)]),
      JsonText([document |-> Str(<<" ", "a">>), paragraph |-> Str(<<"p">>)]),
      JsonText(JsonNumber) }

\* texts sent on /ws_ai_sugg; a plain document is not JSON
Payloads == WellFormed \cup Incomplete \cup { Str(<<"a">>) }

FramesOn(ch) ==
    IF ch = "ws" THEN { TextFrame(d) : d \in Documents } \cup { BytesFrame }
    ELSE { TextFrame(t) : t \in Payloads } \cup { BytesFrame }

Raised(exc) == [raised |-> exc]
Call(fn, args) == [raised |-> "none", fn |-> fn, args |-> args]

\* /ws, lines 102-108: the text is the document, the reviewer gets it stripped
ParseText(document) == Call("review_document", <<Strip(document)>>)

\* a parse that passes the caller's paragraph on
ParsePayload_KeepParagraph(json_data) ==
    IF "json" \notin DOMAIN json_data THEN Raised("JSONDecodeError")
    ELSE LET python_dict == json_data.json
         IN  IF "number" \in DOMAIN python_dict THEN Raised("TypeError")
             ELSE IF ~({"document", "paragraph", "suggestion"} \subseteq DOMAIN python_dict)
                  THEN Raised("KeyError")
             ELSE Call("incorporate_suggestions",
                       <<python_dict.document, python_dict.paragraph,
                         python_dict.suggestion>>)

\* /ws_ai_sugg, lines 130-138: json.loads, the three lookups, the paragraph
\* replaced by the stripped document
ParsePayload(json_data) ==
    IF "json" \notin DOMAIN json_data THEN Raised("JSONDecodeError")
    ELSE LET python_dict == json_data.json
         IN  IF "number" \in DOMAIN python_dict THEN Raised("TypeError")
             ELSE IF ~({"document", "paragraph", "suggestion"} \subseteq DOMAIN python_dict)
                  THEN Raised("KeyError")
             ELSE LET document == python_dict.document
                      suggestion == python_dict.suggestion
                      paragraph == Strip(document)
                  IN  Call("incorporate_suggestions", <<document, paragraph, suggestion>>)

Parse(ch, text) == IF ch = "ws" THEN ParseText(text) ELSE ParsePayload(text)

\* a buffer initialised once, before the loop: later cycles go on from it
NewResponse_Carry(old) == IF IsStr(old) THEN old ELSE Str(<< >>)

\* response='' at the start of every cycle
NewResponse(old) == Str(<< >>)

\* a handler that treats a disconnect like any other exception and loops
ExceptPc_Continue(exc) == "receive"

\* handlers that leave the loop on any exception
ExceptPc_Break(exc) == "closed"

\* except WebSocketDisconnect: break / except Exception: print; continue
ExceptPc(exc) == IF exc = "WebSocketDisconnect" THEN "closed" ELSE "receive"

\* the print of the `except Exception` branch
ExceptReport(exc, n, last) == IF exc = "WebSocketDisconnect" THEN last ELSE n

---------------------------------------------------------------------------
(* The connection handlers *)

SessionInit ==
    /\ channel = [s \in Sessions |-> "none"]
    /\ pc = [s \in Sessions |-> "connecting"]
    /\ client = [s \in Sessions |-> "connected"]
    /\ response = [s \in Sessions |-> None]
    /\ cycle = [s \in Sessions |-> 0]
    /\ inbound = [s \in Sessions |-> None]
    /\ invoked = [s \in Sessions |-> None]
    /\ yielded = [s \in Sessions |-> << >>]
    /\ delivered = [s \in Sessions |-> << >>]
    /\ outcome = [s \in Sessions |-> "none"]
    /\ reported = [s \in Sessions |-> 0]
    /\ malformed = [s \in Sessions |-> FALSE]

Init == StoreInit /\ SessionInit /\ TxnInit

\* await websocket.accept() on either endpoint
accept(s, ch) ==
    /\ pc[s] = "connecting"
    /\ client[s] = "connected"
    /\ channel' = [channel EXCEPT ![s] = ch]
    /\ pc' = [pc EXCEPT ![s] = "receive"]
    /\ UNCHANGED <<client, response, cycle, inbound, invoked, yielded, delivered,
                   outcome, reported, malformed>>
    /\ UNCHANGED <<storeVars, txnVars>>

\* receive_text() returns a frame; the handler runs up to its next await: it
\* parses, calls the reviewer and clears `response`, or an exception takes it
\* to the except branch
receive_text(s, m) ==
    /\ pc[s] = "receive"
    /\ client[s] = "connected"
    /\ cycle[s] < MaxMsgs
    /\ m \in FramesOn(channel[s])
    /\ cycle' = [cycle EXCEPT ![s] = @ + 1]
    /\ inbound' = [inbound EXCEPT ![s] = m]
    /\ delivered' = [delivered EXCEPT ![s] = << >>]
    /\ LET r == IF m.frame = "bytes" THEN Raised("KeyError")
                ELSE Parse(channel[s], m.text)
       IN  IF r.raised # "none"
           THEN /\ pc' = [pc EXCEPT ![s] = ExceptPc(r.raised)]
                /\ reported' = [reported EXCEPT ![s] =
                                   ExceptReport(r.raised, cycle'[s], @)]
                /\ outcome' = [outcome EXCEPT ![s] =
                                  IF m.frame = "bytes" THEN "receive_failed"
                                  ELSE "parse_failed"]
                /\ malformed' = [malformed EXCEPT ![s] = @ \/ m.frame = "text"]
                /\ UNCHANGED <<invoked, yielded, response>>
           ELSE /\ invoked' = [invoked EXCEPT ![s] = [fn |-> r.fn, args |-> r.args]]
                /\ yielded' = [yielded EXCEPT ![s] = << >>]
                /\ response' = [response EXCEPT ![s] = NewResponse(@)]
                /\ pc' = [pc EXCEPT ![s] = "stream"]
                /\ outcome' = [outcome EXCEPT ![s] = "processing"]
                /\ UNCHANGED <<reported, malformed>>
    /\ UNCHANGED <<channel, client>>
    /\ UNCHANGED <<storeVars, txnVars>>

\* receive_text() raises WebSocketDisconnect: the client has gone
receive_disconnect(s) ==
    /\ pc[s] = "receive"
    /\ client[s] = "disconnected"
    /\ pc' = [pc EXCEPT ![s] = ExceptPc("WebSocketDisconnect")]
    /\ reported' = [reported EXCEPT ![s] =
                       ExceptReport("WebSocketDisconnect", cycle[s], @)]
    /\ outcome' = [outcome EXCEPT ![s] = "disconnected"]
    /\ UNCHANGED <<channel, client, response, cycle, inbound, invoked, yielded,
                   delivered, malformed>>
    /\ UNCHANGED <<storeVars, txnVars>>

\* a handler whose buffer is one module-level text, shared by all connections
next_fragment_Shared(s, suggestion) ==
    /\ pc[s] = "stream"
    /\ Len(yielded[s]) < MaxFrags
    /\ yielded' = [yielded EXCEPT ![s] = Append(@, suggestion)]
    /\ response' = [t \in Sessions |->
                       IF IsStr(response[t]) THEN Accumulate(response[t], suggestion)
                       ELSE response[t]]
    /\ UNCHANGED <<channel, pc, client, cycle, inbound, invoked, delivered, outcome,
                   reported, malformed>>
    /\ UNCHANGED <<storeVars, txnVars>>

\* async for suggestion in suggestions: one fragment arrives
next_fragment(s, suggestion) ==
    /\ pc[s] = "stream"
    /\ Len(yielded[s]) < MaxFrags
    /\ yielded' = [yielded EXCEPT ![s] = Append(@, suggestion)]
    /\ response' = [response EXCEPT ![s] = Accumulate(@, suggestion)]
    /\ UNCHANGED <<channel, pc, client, cycle, inbound, invoked, delivered, outcome,
                   reported, malformed>>
    /\ UNCHANGED <<storeVars, txnVars>>

\* a handler that hands the send to a background task and loops at once
stream_end_Detached(s) ==
    /\ pc[s] = "stream"
    /\ pc' = [pc EXCEPT ![s] = "receive"]
    /\ UNCHANGED <<channel, client, response, cycle, inbound, invoked, yielded,
                   delivered, outcome, reported, malformed>>
    /\ UNCHANGED <<storeVars, txnVars>>

\* the stream is exhausted: the loop ends and the handler goes on to send
stream_end(s) ==
    /\ pc[s] = "stream"
    /\ pc' = [pc EXCEPT ![s] = "send"]
    /\ UNCHANGED <<channel, client, response, cycle, inbound, invoked, yielded,
                   delivered, outcome, reported, malformed>>
    /\ UNCHANGED <<storeVars, txnVars>>

\* a handler that sends what it has when the stream raises
stream_raise_SendPartial(s) ==
    /\ pc[s] = "stream"
    /\ pc' = [pc EXCEPT ![s] = ExceptPc("ReviewerError")]
    /\ reported' = [reported EXCEPT ![s] = ExceptReport("ReviewerError", cycle[s], @)]
    /\ outcome' = [outcome EXCEPT ![s] = "stream_failed"]
    /\ delivered' = [delivered EXCEPT ![s] = Append(@, JsonDumps(response[s]))]
    /\ UNCHANGED <<channel, client, response, cycle, inbound, invoked, yielded,
                   malformed>>
    /\ UNCHANGED <<storeVars, txnVars>>

\* the reviewer's stream raises: the except branch prints and continues
stream_raise(s) ==
    /\ pc[s] = "stream"
    /\ pc' = [pc EXCEPT ![s] = ExceptPc("ReviewerError")]
    /\ reported' = [reported EXCEPT ![s] = ExceptReport("ReviewerError", cycle[s], @)]
    /\ outcome' = [outcome EXCEPT ![s] = "stream_failed"]
    /\ UNCHANGED <<channel, client, response, cycle, inbound, invoked, yielded,
                   delivered, malformed>>
    /\ UNCHANGED <<storeVars, txnVars>>

\* a send that waits until no other handler is consuming a stream
send_json_Blocking(s) ==
    /\ pc[s] = "send"
    /\ client[s] = "connected"
    /\ \A t \in Sessions \ {s} : pc[t] # "stream"
    /\ delivered' = [delivered EXCEPT ![s] = Append(@, JsonDumps(response[s]))]
    /\ pc' = [pc EXCEPT ![s] = "receive"]
    /\ outcome' = [outcome EXCEPT ![s] = "answered"]
    /\ UNCHANGED <<channel, client, response, cycle, inbound, invoked, yielded,
                   reported, malformed>>
    /\ UNCHANGED <<storeVars, txnVars>>

\* a handler that also stores what it sends as the content of document 1
send_json_Saving(s) ==
    /\ pc[s] = "send"
    /\ client[s] = "connected"
    /\ delivered' = [delivered EXCEPT ![s] = Append(@, JsonDumps(response[s]))]
    /\ pc' = [pc EXCEPT ![s] = "receive"]
    /\ outcome' = [outcome EXCEPT ![s] = "answered"]
    /\ rows' = UpdateContent(rows, 1, 1, "SUGGESTION")
    /\ UNCHANGED <<channel, client, response, cycle, inbound, invoked, yielded,
                   reported, malformed>>
    /\ UNCHANGED <<reply, origin, pre, txn, commits>>

\* await websocket.send_json(response) to a connected client
send_json(s) ==
    /\ pc[s] = "send"
    /\ client[s] = "connected"
    /\ delivered' = [delivered EXCEPT ![s] = Append(@, JsonDumps(response[s]))]
    /\ pc' = [pc EXCEPT ![s] = "receive"]
    /\ outcome' = [outcome EXCEPT ![s] = "answered"]
    /\ UNCHANGED <<channel, client, response, cycle, inbound, invoked, yielded,
                   reported, malformed>>
    /\ UNCHANGED <<storeVars, txnVars>>

\* what a send to a client that has gone raises: the transport's
\* WebSocketDisconnect or another error, depending on the server stack
SendErrors == { "WebSocketDisconnect", "RuntimeError" }

\* await websocket.send_json(response) after the client has gone
send_json_fails(s, exc) ==
    /\ pc[s] = "send"
    /\ client[s] = "disconnected"
    /\ exc \in SendErrors
    /\ pc' = [pc EXCEPT ![s] = ExceptPc(exc)]
    /\ reported' = [reported EXCEPT ![s] = ExceptReport(exc, cycle[s], @)]
    /\ outcome' = [outcome EXCEPT ![s] = "send_failed"]
    /\ UNCHANGED <<channel, client, response, cycle, inbound, invoked, yielded,
                   delivered, malformed>>
    /\ UNCHANGED <<storeVars, txnVars>>

\* the client closes its end, at any point of the handler's cycle
client_disconnect(s) ==
    /\ pc[s] \in {"receive", "stream", "send"}
    /\ client[s] = "connected"
    /\ client' = [client EXCEPT ![s] = "disconnected"]
    /\ UNCHANGED <<channel, pc, response, cycle, inbound, invoked, yielded,
                   delivered, outcome, reported, malformed>>
    /\ UNCHANGED <<storeVars, txnVars>>

Channels == {"ws", "ws_ai_sugg"}

\* the steps of the handler of connection s, and of its client
StreamStep(s) ==
    \/ \E f \in Fragments : next_fragment(s, f)
    \/ stream_end(s)
    \/ stream_raise(s)

SendStep(s) ==
    \/ send_json(s)
    \/ \E exc \in SendErrors : send_json_fails(s, exc)

\* one connection, on either endpoint
Connection == "c1"

StoreNext ==
    \/ \E id \in DocumentIds, v \in Versions : get_document(id, v)
    \/ \E id \in DocumentIds, v \in Versions, c \in Contents : save(id, v, c)
    \/ get_versions
    \/ \E id \in DocumentIds, v \in Versions, c \in Contents : create_version(id, v, c)

StoreSpec == Init /\ [][StoreNext]_vars

SessionNext ==
    \/ \E ch \in Channels : accept(Connection, ch)
    \/ \E m \in FramesOn("ws") \cup FramesOn("ws_ai_sugg") : receive_text(Connection, m)
    \/ receive_disconnect(Connection)
    \/ \E f \in Fragments : next_fragment(Connection, f)
    \/ stream_end(Connection)
    \/ stream_raise(Connection)
    \/ send_json(Connection)
    \/ \E exc \in SendErrors : send_json_fails(Connection, exc)
    \/ client_disconnect(Connection)

SessionSpec == Init /\ [][SessionNext]_vars

\* the event loop resumes a handler whose await has completed, and the
\* reviewer's stream goes on to its end
FairSessionSpec ==
    SessionSpec /\ WF_vars(StreamStep(Connection)) /\ WF_vars(SendStep(Connection))

---------------------------------------------------------------------------
(* Two connections at once, and the whole server *)

\* frames per connection and fragments per frame when two connections run
PairMaxMsgs == 1
PairMaxFrags == 2

\* the first connection is on /ws, the second on /ws_ai_sugg
PairChannel(s) == IF s = "c1" THEN "ws" ELSE "ws_ai_sugg"

\* each client's frames; the second client also sends a text that is no JSON
PairFrames(s) ==
    IF s = "c1" THEN { TextFrame(Str(<<" ", "a", " ">>)) }
    ELSE { TextFrame(Payload(Str(<<" ", "a">>), Str(<<"q">>), Str(<<"s">>))),
           TextFrame(Str(<<"a">>)) }

\* the reviewer's fragments differ per call, so that a text tells its origin
PairFragments(s) == IF s = "c1" THEN { Str(<<"a">>) } ELSE { Str(<<"\"">>) }

PairStep(s) ==
    \/ accept(s, PairChannel(s))
    \/ \E m \in PairFrames(s) : cycle[s] < PairMaxMsgs /\ receive_text(s, m)
    \/ receive_disconnect(s)
    \/ \E f \in PairFragments(s) : Len(yielded[s]) < PairMaxFrags /\ next_fragment(s, f)
    \/ stream_end(s)
    \/ stream_raise(s)
    \/ send_json(s)
    \/ \E exc \in SendErrors : send_json_fails(s, exc)
    \/ client_disconnect(s)

PairNext == \E s \in Sessions : PairStep(s)

PairSpec == Init /\ [][PairNext]_vars

\* the event loop resumes a handler whose receive or send has completed;
\* nothing makes a reviewer's stream go on
PairLoopSpec ==
    PairSpec /\ \A s \in Sessions :
                   WF_vars(SendStep(s)) /\ WF_vars(receive_disconnect(s))

\* the whole server: two connections, and HTTP requests that read and
\* write the pairs (1, 1), seeded, and (1, 2), absent at the start
ServerNext ==
    \/ PairNext
    \/ get_document(1, 2)
    \/ save(1, 1, DOCUMENT_2)
    \/ get_versions
    \/ create_version(1, 2, DOCUMENT_2)

ServerSpec == Init /\ [][ServerNext]_vars

\* two worker threads, each serving save and create_version requests
TxnSpec == Init /\ [][TxnNext]_vars

---------------------------------------------------------------------------
(* Properties of the store *)

ReplyPair == <<reply.document_id, reply.document_version>>

Existed == Matching(pre, reply.document_id, reply.document_version) # {}

\* C1: a getVersion(id, version) whose pair was last written by a successful
\* createVersion(id, version, content) returns exactly that content.
C1_CreateThenGet ==
    (reply.op = "get_document" /\ origin[ReplyPair] # None
        /\ origin[ReplyPair].by = "create_version")
    => (reply.body # None /\ reply.body.content = origin[ReplyPair].content
        /\ reply.body.id = reply.document_id
        /\ reply.body.version = reply.document_version)

C1_Witness ==
    /\ reply.op = "get_document"
    /\ Matching(lifespan, reply.document_id, reply.document_version) = {}
    /\ origin[ReplyPair] # None
    /\ origin[ReplyPair].by = "create_version"
    /\ reply.body # None
    /\ reply.body.content = origin[ReplyPair].content

\* C2: createVersion for a pair that already exists (created before or from
\* the seed data) fails with the key conflict, is not answered with the
\* success echo, and leaves the table, hence the content stored for the pair,
\* as the earlier write left it.
C2_CreateExistingConflicts ==
    (reply.op = "create_version" /\ Existed)
    => /\ reply.status = "IntegrityError"
       /\ reply.body = None
       /\ rows = pre
       /\ SelectScalar(rows, reply.document_id, reply.document_version).content
            = origin[ReplyPair].content

C2_Witness ==
    /\ reply.op = "create_version"
    /\ Existed
    /\ reply.status = "IntegrityError"
    /\ origin[ReplyPair].by = "create_version"
    /\ reply.content # origin[ReplyPair].content

\* C3: saveVersion on a pair that is not in the store creates no row, changes
\* no row and does not raise: it answers the echo {document_id, content}.
C3_SaveMissingIsNoOp ==
    (reply.op = "save" /\ ~Existed)
    => /\ rows = pre
       /\ reply.status = "ok"
       /\ reply.body = [document_id |-> reply.document_id, content |-> reply.content]

C3_Witness ==
    /\ reply.op = "save"
    /\ ~Existed
    /\ Matching(rows, reply.document_id, reply.document_version) = {}
    /\ reply.status = "ok"

\* C4: a getVersion(id, version) whose pair was last written by
\* saveVersion(id, version, c) returns c, and saving the content just saved a
\* second time leaves the table as the first save left it.
C4_SaveThenGetIdempotent ==
    /\ (reply.op = "get_document" /\ origin[ReplyPair] # None
           /\ origin[ReplyPair].by = "save")
       => (reply.body # None /\ reply.body.content = origin[ReplyPair].content)
    /\ (reply.op = "save" /\ Existed)
       => /\ SelectScalar(rows, reply.document_id, reply.document_version).content
               = reply.content
          /\ UpdateContent(rows, reply.document_id, reply.document_version,
                           reply.content) = rows

C4_Witness ==
    /\ reply.op = "get_document"
    /\ origin[ReplyPair] # None
    /\ origin[ReplyPair].by = "save"
    /\ reply.body # None
    /\ reply.body.content = origin[ReplyPair].content
    /\ reply.body.content # DOCUMENT_2
    /\ reply.document_id = 2

\* C5: no two rows of the table share both document id and version.
C5_PrimaryKeyUnique ==
    \A i, j \in DOMAIN rows :
        (rows[i].id = rows[j].id /\ rows[i].version = rows[j].version) => i = j

C5_Witness ==
    /\ Len(rows) > Len(lifespan)
    /\ reply.op = "create_version"
    /\ reply.status = "IntegrityError"

SeqToSet(q) == { q[i] : i \in DOMAIN q }

\* C6: the mapping listVersions answers has as keys exactly the document ids
\* with a row in the table and, for each, exactly the versions existing for
\* that id, each once; the table is left as it was.
C6_ListVersionsExact ==
    reply.op = "get_versions"
    => /\ DOMAIN reply.body = { rows[i].id : i \in DOMAIN rows }
       /\ \A d \in DOMAIN reply.body :
            /\ SeqToSet(reply.body[d])
                 = { rows[i].version : i \in { k \in DOMAIN rows : rows[k].id = d } }
            /\ \A a, b \in DOMAIN reply.body[d] :
                 reply.body[d][a] = reply.body[d][b] => a = b
       /\ rows = pre

C6_Witness ==
    /\ reply.op = "get_versions"
    /\ SeqToSet(reply.body[2]) = {1, 2, 3}
    /\ SeqToSet(reply.body[1]) = {1, 3}
    /\ Len(rows) = 5

---------------------------------------------------------------------------
(* Properties of the connection handlers *)

\* the concatenation, in arrival order, of the fragments that are non-empty texts
RECURSIVE Assemble(_)
Assemble(frags) ==
    IF frags = << >> THEN Str(<< >>)
    ELSE IF IsStr(Head(frags))
         THEN Str(Head(frags).str \o Assemble(Tail(frags)).str)
         ELSE Assemble(Tail(frags))

\* the characters of a JSON string's inside, unescaped; Invalid when a quote
\* is not escaped or an escape is cut short
Invalid == [invalid |-> TRUE]

RECURSIVE Unescape(_)
Unescape(q) ==
    IF q = << >> THEN Str(<< >>)
    ELSE IF Head(q) = "\""  THEN Invalid
    ELSE IF Head(q) = "\\"
         THEN IF Len(q) < 2 \/ ~IsStr(Unescape(SubSeq(q, 3, Len(q)))) THEN Invalid
              ELSE Str(<<q[2]>> \o Unescape(SubSeq(q, 3, Len(q))).str)
    ELSE IF ~IsStr(Unescape(Tail(q))) THEN Invalid
         ELSE Str(<<Head(q)>> \o Unescape(Tail(q)).str)

\* the text a JSON string literal stands for
JsonStringValue(wire) ==
    IF ~IsStr(wire) \/ Len(wire.str) < 2 \/ wire.str[1] # "\""
         \/ wire.str[Len(wire.str)] # "\""
    THEN Invalid
    ELSE Unescape(SubSeq(wire.str, 2, Len(wire.str) - 1))

\* C8 as stated: for a fragment sequence that has completed, exactly one
\* message is sent and its text is the concatenation of the non-empty
\* fragments; nothing is sent while the sequence is still being consumed.
C8_SentTextIsConcatenation ==
    \A s \in Sessions :
        /\ outcome[s] = "answered" => delivered[s] = << Assemble(yielded[s]) >>
        /\ pc[s] \in {"stream", "send"} => delivered[s] = << >>

\* C8 amended: for a fragment sequence that has completed, exactly one message
\* is sent, and its text is the JSON string literal (double quotes around the
\* escaped text) of the concatenation of the non-empty fragments in arrival
\* order; nothing is sent while the sequence is still being consumed.
C8_SentJsonOfConcatenation ==
    \A s \in Sessions :
        /\ outcome[s] = "answered"
           => /\ Len(delivered[s]) = 1
              /\ JsonStringValue(delivered[s][1]) = Assemble(yielded[s])
        /\ pc[s] \in {"stream", "send"} => delivered[s] = << >>

C8_Witness ==
    \E s \in Sessions :
        /\ outcome[s] = "answered"
        /\ yielded[s] = << Str(<<"a">>), None, Str(<<"\"">>) >>
        /\ delivered[s] = << Str(<<"\"", "a", "\\", "\"", "\"">>) >>

\* C9: when the reviewer's stream raises, nothing has been sent for the frame
\* being handled, the failure is printed, and the handler is back at
\* receive_text, its connection still open.
C9_StreamFailureSendsNothing ==
    \A s \in Sessions :
        outcome[s] = "stream_failed"
        => /\ delivered[s] = << >>
           /\ reported[s] = cycle[s]
           /\ pc[s] = "receive"

C9_Witness ==
    \E s \in Sessions :
        /\ outcome[s] = "stream_failed"
        /\ Len(yielded[s]) >= 2
        /\ response[s] = Str(<<"a", "a">>)
        /\ pc[s] = "receive"

\* C10: on /ws_ai_sugg a payload that fails to parse leaves the handler at
\* receive_text with the connection open, and a well-formed payload received
\* after it is answered with its assembled result, unless the reviewer's
\* stream raises or the client goes away first.
C10_MalformedThenAnswered ==
    /\ [](\A s \in Sessions :
            (channel[s] = "ws_ai_sugg" /\ outcome[s] = "parse_failed")
            => (pc[s] = "receive" /\ reported[s] = cycle[s]))
    /\ \A s \in Sessions :
         (channel[s] = "ws_ai_sugg" /\ malformed[s] /\ outcome[s] = "processing")
         ~> \/ /\ outcome[s] = "answered"
               /\ Len(delivered[s]) = 1
               /\ JsonStringValue(delivered[s][1]) = Assemble(yielded[s])
            \/ outcome[s] = "stream_failed"
            \/ client[s] = "disconnected"

C10_Witness ==
    \E s \in Sessions :
        /\ channel[s] = "ws_ai_sugg"
        /\ malformed[s]
        /\ outcome[s] = "answered"
        /\ inbound[s].text \in WellFormed
        /\ client[s] = "connected"
        /\ delivered[s] # << >>

\* the handling of the frame received last got as far as the reviewer call
Invoked(s) == outcome[s] \in {"processing", "answered", "stream_failed", "send_failed"}

\* C11: a handler is out of its loop only after its client has disconnected;
\* a parse failure, a failed receive or a reviewer failure leaves it at
\* receive_text, and a failed send closes it only with the client gone.
C11_ClosedOnlyOnDisconnect ==
    \A s \in Sessions :
        /\ pc[s] = "closed" => client[s] = "disconnected"
        /\ outcome[s] \in {"parse_failed", "receive_failed", "stream_failed"}
           => pc[s] = "receive"
        /\ (outcome[s] = "send_failed" /\ pc[s] # "closed")
           => (pc[s] = "receive" /\ reported[s] = cycle[s])

C11_Witness ==
    \E s \in Sessions :
        /\ pc[s] = "closed"
        /\ client[s] = "disconnected"
        /\ malformed[s]
        /\ reported[s] = 2
        /\ cycle[s] = 2

\* C13: a handler receives its next frame only from receive_text with the
\* handling of the previous frame over, one frame at a time, and a message
\* is sent only for the frame received last, while it is being handled.
C13_OneAtATime ==
    [][ \A s \in Sessions :
          /\ cycle'[s] # cycle[s]
             => /\ pc[s] = "receive"
                /\ outcome[s] # "processing"
                /\ cycle'[s] = cycle[s] + 1
          /\ (delivered'[s] # delivered[s] /\ delivered'[s] # << >>)
             => /\ cycle'[s] = cycle[s]
                /\ outcome[s] = "processing"
                /\ outcome'[s] = "answered"
                /\ Len(delivered'[s]) = 1 ]_vars

C13_Witness ==
    \E s \in Sessions :
        /\ cycle[s] = 2
        /\ outcome[s] = "answered"
        /\ reported[s] = 0
        /\ Len(delivered[s]) = 1

\* C18: on /ws_ai_sugg the reviewer is called with (document, document
\* stripped, suggestion): the payload's paragraph does not reach it.
C18_ParagraphIsStrippedDocument ==
    \A s \in Sessions :
        (channel[s] = "ws_ai_sugg" /\ Invoked(s))
        => LET d == inbound[s].text.json
               p == invoked[s].args[2].str
           IN  /\ invoked[s].fn = "incorporate_suggestions"
               /\ invoked[s].args = <<d.document, Strip(d.document), d.suggestion>>
               /\ p # << >> => (Head(p) # " " /\ p[Len(p)] # " ")
               /\ \E i \in 0..Len(d.document.str) :
                    SubSeq(d.document.str, i + 1, i + Len(p)) = p

C18_Witness ==
    \E s \in Sessions :
        /\ channel[s] = "ws_ai_sugg"
        /\ Invoked(s)
        /\ inbound[s].text.json.paragraph = Str(<<"q">>)
        /\ invoked[s].args = << Str(<<" ", "a">>), Str(<<"a">>), Str(<<"s">>) >>

\* C19: the buffer holds the fragments of the frame received last and
\* nothing else: it is empty when the reviewer is called and, from then on,
\* the concatenation of the non-empty fragments yielded for that call.
C19_BufferPerCycle ==
    \A s \in Sessions :
        Invoked(s)
        => /\ response[s] = Assemble(yielded[s])
           /\ Len(response[s].str) <= Len(yielded[s])

C19_Witness ==
    \E s \in Sessions :
        /\ channel[s] = "ws"
        /\ cycle[s] = 2
        /\ reported[s] = 1
        /\ inbound[s].frame = "text"
        /\ outcome[s] = "answered"
        /\ yielded[s] = << Str(<<"\"">>) >>
        /\ response[s] = Str(<<"\"">>)

PairsOf(table) == { <<table[i].id, table[i].version>> : i \in DOMAIN table }

\* C20: no request removes a row or moves one to another pair; save leaves
\* the set of pairs as it is and changes at most the one row that matches;
\* create_version of an absent pair succeeds, whatever versions exist, and
\* appends that one row, leaving the others as they are.
C20_RowsStayWritesLocal ==
    /\ Len(rows) >= Len(pre)
    /\ \A i \in DOMAIN pre :
         rows[i].id = pre[i].id /\ rows[i].version = pre[i].version
    /\ reply.op = "save"
       => /\ PairsOf(rows) = PairsOf(pre)
          /\ Len(rows) = Len(pre)
          /\ \A i \in DOMAIN pre :
               rows[i] # pre[i]
               => i \in Matching(pre, reply.document_id, reply.document_version)
          /\ Cardinality({ i \in DOMAIN pre : rows[i] # pre[i] }) <= 1
    /\ reply.op = "create_version"
       => IF Existed
          THEN rows = pre
          ELSE /\ reply.status = "ok"
               /\ rows = Append(pre, Row(reply.document_id, reply.document_version,
                                         reply.content))
    /\ reply.op \in {"get_document", "get_versions"} => rows = pre

C20_Witness ==
    /\ reply.op = "create_version"
    /\ reply.status = "ok"
    /\ reply.document_id = 1
    /\ reply.document_version = 3
    /\ <<1, 2>> \notin PairsOf(rows)
    /\ PairsOf(rows) = PairsOf(pre) \cup {<<1, 3>>}

---------------------------------------------------------------------------
(* Properties of concurrent connections *)

\* all that the server holds for connection s
SessionState(s) ==
    << channel[s], pc[s], client[s], response[s], cycle[s], inbound[s], invoked[s],
       yielded[s], delivered[s], outcome[s], reported[s], malformed[s] >>

\* C12 as stated: whenever the client has disconnected, at whatever point of
\* the cycle the handler is suspended, the session eventually reaches Closed.
C12_DisconnectAlwaysCloses ==
    \A s \in Sessions : (client[s] = "disconnected") ~> (pc[s] = "closed")

\* What the handlers do guarantee: a client disconnect found while the handler
\* is waiting for a message or sending leads to Closed (so a handler waiting
\* for a fragment closes once its stream has ended, and not before); a closed
\* session does nothing more; a session's closing changes no other session.
C12_DisconnectClosesAtReceiveOrSend ==
    /\ \A s \in Sessions :
         (client[s] = "disconnected" /\ pc[s] \in {"receive", "send"})
            ~> (pc[s] = "closed")
    /\ [][ \A s \in Sessions :
             /\ pc[s] = "closed" => SessionState(s)' = SessionState(s)
             /\ (pc[s] # "closed" /\ pc'[s] = "closed")
                => \A t \in Sessions \ {s} : SessionState(t)' = SessionState(t) ]_vars

C12_Witness ==
    /\ pc["c1"] = "closed"
    /\ outcome["c1"] = "send_failed"
    /\ yielded["c1"] # << >>
    /\ pc["c2"] = "receive"
    /\ outcome["c2"] = "answered"
    /\ client["c2"] = "connected"

\* the characters of the fragments in frags
FragmentChars(frags) ==
    UNION { SeqToSet(frags[i].str) : i \in { k \in DOMAIN frags : IsStr(frags[k]) } }

\* C14: with two connections interleaved in any order, every message sent on
\* a connection decodes to the assembly of the fragments yielded for the
\* frame that connection received last, and holds no character of a
\* fragment yielded for the other connection.
C14_NoCrossTalk ==
    \A s \in Sessions : \A i \in DOMAIN delivered[s] :
        LET text == JsonStringValue(delivered[s][i])
        IN  /\ IsStr(text)
            /\ text = Assemble(yielded[s])
            /\ \A t \in Sessions \ {s} :
                 SeqToSet(text.str) \cap FragmentChars(yielded[t]) = {}

C14_Witness ==
    /\ channel["c1"] = "ws"
    /\ channel["c2"] = "ws_ai_sugg"
    /\ delivered["c1"] = << Str(<<"\"", "a", "a", "\"">>) >>
    /\ delivered["c2"] = << Str(<<"\"", "\\", "\"", "\"">>) >>
    /\ pc["c1"] = "receive"
    /\ pc["c2"] = "receive"

\* C15: a handler whose stream has ended sends its response (or finds its
\* own client gone), whatever the other connection does, also when the other
\* handler waits on its reviewer's stream for ever.
C15_NoSessionBlocksAnother ==
    \A t \in Sessions :
        (pc[t] = "send")
           ~> (outcome[t] \in {"answered", "send_failed"} /\ pc[t] # "send")

C15_Witness ==
    /\ pc["c1"] = "stream"
    /\ yielded["c1"] = << >>
    /\ outcome["c2"] = "answered"
    /\ delivered["c2"] # << >>

\* C17: a step that changes anything of a connection leaves the table, the
\* HTTP reply and every other connection as they were.
C17_SessionsLeaveStoreAndPeers ==
    [][ \A s \in Sessions :
          SessionState(s)' # SessionState(s)
          => /\ rows' = rows
             /\ UNCHANGED storeVars
             /\ \A t \in Sessions \ {s} : SessionState(t)' = SessionState(t) ]_vars

C17_Witness ==
    /\ rows # lifespan
    /\ Len(rows) > Len(lifespan)
    /\ outcome["c1"] = "answered"
    /\ outcome["c2"] = "parse_failed"
    /\ pc["c2"] = "receive"

---------------------------------------------------------------------------
(* Properties of concurrent transactions *)

\* the committed transactions that wrote the row of pair p
WritesOn(p) ==
    { i \in DOMAIN commits :
        commits[i].id = p[1] /\ commits[i].version = p[2] /\ commits[i].wrote }

\* C16: whatever the interleaving of two workers' statements and commits,
\* each pair's row holds exactly the content of the write on that pair that
\* committed last (the seed content when there is none), so writes to
\* different pairs both take effect; a save never fails and a create fails
\* only when its pair already has a row; of the creates of an absent pair
\* exactly one succeeds.
C16_AtomicTransactions ==
    /\ \A p \in TxnPairs :
         LET here == Matching(rows, p[1], p[2])
             seed == Matching(lifespan, p[1], p[2])
         IN  /\ Cardinality(here) <= 1
             /\ IF WritesOn(p) = {}
                THEN /\ here = seed
                     /\ \A i \in here : rows[i] = lifespan[i]
                ELSE /\ Cardinality(here) = 1
                     /\ \A i \in here :
                          LET last == CHOOSE k \in WritesOn(p) :
                                          \A j \in WritesOn(p) : j <= k
                          IN  rows[i].content = commits[last].content
             /\ LET creates == { i \in DOMAIN commits :
                                   /\ commits[i].op = "create_version"
                                   /\ commits[i].id = p[1]
                                   /\ commits[i].version = p[2] }
                    succeeded == { i \in creates : ~commits[i].raised }
                IN  /\ Cardinality(succeeded) <= 1
                    /\ (seed = {} /\ creates # {}) => Cardinality(succeeded) = 1
                    /\ seed # {} => succeeded = {}
    /\ \A i \in DOMAIN commits :
         /\ commits[i].op = "save" => ~commits[i].raised
         /\ commits[i].raised
            => \/ Matching(lifespan, commits[i].id, commits[i].version) # {}
               \/ \E j \in 1..(i - 1) :
                     /\ commits[j].op = "create_version"
                     /\ commits[j].id = commits[i].id
                     /\ commits[j].version = commits[i].version
                     /\ ~commits[j].raised
    /\ Len(rows) = Len(lifespan)
                     + Cardinality({ i \in DOMAIN commits :
                                       commits[i].op = "create_version"
                                       /\ ~commits[i].raised })

\* two saves of the same row, both executed before either commits
C16_Witness ==
    /\ Len(commits) >= 2
    /\ commits[1].op = "save" /\ commits[1].worker = "w2"
    /\ commits[2].op = "save" /\ commits[2].worker = "w1"
    /\ commits[1].id = 1 /\ commits[1].version = 1
    /\ commits[2].id = 1 /\ commits[2].version = 1
    /\ commits[1].began = 0 /\ commits[2].began = 0
    /\ SelectScalar(rows, 1, 1).content = WorkerContent("w1")

====
